---- MODULE Spec2Model ----
(***************************************************************************)
(* Model of src/cmd/validate.rs (xsv val): the delimiter-consistency       *)
(* validator.  A file is a sequence of bytes; strings are sequences of     *)
(* bytes as well, so that formatting (fmt_error) and line splitting        *)
(* (read_line, lines) are computed, not assumed.                           *)
(***************************************************************************)
EXTENDS Integers, Sequences, FiniteSets, TLC

\* ---------------------------------------------------------------- bounds
\* longest file content, in bytes
MaxLen == 4

\* ------------------------------------------------------- bytes and texts
LF == 10
CR == 13
\* the default quote '"' and the default delimiter ','
DQUOTE == 34
COMMA == 44
\* an ordinary data byte, 'a'
LETTER == 97
\* qual: Option<u8> is None under --no-quoting; 256 is outside u8
NoQual == 256

Alphabet == {LF, CR, DQUOTE, COMMA, LETTER}

Files == UNION {[1..n -> Alphabet] : n \in 0..MaxLen}

\* "Line_Number,Expected_Delimiters,Actual_Delimiters,Data"
HEADER == <<76, 105, 110, 101, 95, 78, 117, 109, 98, 101, 114, 44, 69, 120, 112, 101, 99, 116, 101, 100, 95, 68, 101, 108, 105, 109, 105, 116, 101, 114, 115, 44, 65, 99, 116, 117, 97, 108, 95, 68, 101, 108, 105, 109, 105, 116, 101, 114, 115, 44, 68, 97, 116, 97>>
\* "File is valid"
FILE_IS_VALID == <<70, 105, 108, 101, 32, 105, 115, 32, 118, 97, 108, 105, 100>>
\* "File is invalid"
FILE_IS_INVALID == <<70, 105, 108, 101, 32, 105, 115, 32, 105, 110, 118, 97, 108, 105, 100>>
\* "Path not found or filepath is not a file: "
PATH_NOT_FOUND == <<80, 97, 116, 104, 32, 110, 111, 116, 32, 102, 111, 117, 110, 100, 32, 111, 114, 32, 102, 105, 108, 101, 112, 97, 116, 104, 32, 105, 115, 32, 110, 111, 116, 32, 97, 32, 102, 105, 108, 101, 58, 32>>
\* "Error opening file: "
ERROR_OPENING == <<69, 114, 114, 111, 114, 32, 111, 112, 101, 110, 105, 110, 103, 32, 102, 105, 108, 101, 58, 32>>
\* the io::Error of a failed open, displayed: "Permission denied (os error 13)"
OPEN_ERROR_TEXT == <<80, 101, 114, 109, 105, 115, 115, 105, 111, 110, 32, 100, 101, 110, 105, 101, 100, 32, 40, 111, 115, 32, 101, 114, 114, 111, 114, 32, 49, 51, 41>>
\* args.arg_input: "in.csv"
arg_input == <<105, 110, 46, 99, 115, 118>>

VARIABLES
    path_kind,        \* what arg_input names: "file", "dir" or "missing"
    openable,         \* whether File::open succeeds on it
    file,             \* the bytes of the file
    delim,            \* delim_arg
    qual,             \* qual (NoQual when --no-quoting)
    flag_output,      \* args.flag_output: "None" or "Some"
    create_ok,        \* whether File::create(output) succeeds
    pc,               \* position of the program
    pos,              \* bytes the BufReader has consumed
    i,                \* the enumerate() index of the next line
    line,             \* the line last read
    delim_count,
    qual_flag,
    expected_delims,
    last_count,       \* delim_count as compared at line 158 / 206 (or stored at 138 / 191)
    last_flag,        \* qual_flag at the end of the last scan, before its reset
    errs,
    res,              \* the Result validate_file returned
    stdout,           \* lines printed with println!
    out_file,         \* the file created for --output
    ret,              \* what run returned
    panic             \* the message of the panic, "" when none

vars == <<path_kind, openable, file, delim, qual, flag_output, create_ok, pc, pos, i,
          line, delim_count, qual_flag, expected_delims, last_count, last_flag,
          errs, res, stdout, out_file, ret, panic>>

env == <<path_kind, openable, file, delim, qual, flag_output, create_ok>>
scan == <<pos, i, line, delim_count, qual_flag, expected_delims, last_count, last_flag, errs>>
outs == <<stdout, out_file, ret>>

\* ----------------------------------------------------------- the reader
\* BufRead::read_line: the bytes from position p up to and including the
\* next LF, or up to the end of the stream
RECURSIVE read_line(_, _)
read_line(f, p) ==
    IF p >= Len(f) THEN <<>>
    ELSE IF f[p + 1] = LF THEN <<LF>>
    ELSE <<f[p + 1]>> \o read_line(f, p + 1)

\* Lines::next on the bytes read_line returned: a final "\n" is popped, and
\* then a final "\r" if there is one
lines_strip(raw) ==
    IF Len(raw) > 0 /\ raw[Len(raw)] = LF
    THEN LET b == SubSeq(raw, 1, Len(raw) - 1)
         IN IF Len(b) > 0 /\ b[Len(b)] = CR THEN SubSeq(b, 1, Len(b) - 1) ELSE b
    ELSE raw

\* ------------------------------------------------------------ the scans
\* validate_quoted, first line (for ch in iter, lines 130-136)
RECURSIVE scan_first_quoted(_, _, _, _, _)
scan_first_quoted(s, d, q, count, flag) ==
    IF s = <<>> THEN [count |-> count, flag |-> flag]
    ELSE LET ch == Head(s)
         IN IF ch = d /\ ~flag THEN scan_first_quoted(Tail(s), d, q, count + 1, flag)
            ELSE IF ch = q THEN scan_first_quoted(Tail(s), d, q, count, ~flag)
            ELSE scan_first_quoted(Tail(s), d, q, count, flag)

\* a scan that tests the quote byte before the delimiter byte
RECURSIVE scan_line_quote_first(_, _, _, _, _)
scan_line_quote_first(s, d, q, count, flag) ==
    IF s = <<>> THEN [count |-> count, flag |-> flag]
    ELSE LET ch == Head(s)
         IN IF ch = q THEN scan_line_quote_first(Tail(s), d, q, count, ~flag)
            ELSE IF ch = d
                 THEN scan_line_quote_first(Tail(s), d, q, IF ~flag THEN count + 1 ELSE count, flag)
                 ELSE scan_line_quote_first(Tail(s), d, q, count, flag)

\* validate_quoted, later lines (match ch, lines 145-157)
RECURSIVE scan_line_quoted(_, _, _, _, _)
scan_line_quoted(s, d, q, count, flag) ==
    IF s = <<>> THEN [count |-> count, flag |-> flag]
    ELSE LET ch == Head(s)
         IN IF ch = d
            THEN scan_line_quoted(Tail(s), d, q, IF ~flag THEN count + 1 ELSE count, flag)
            ELSE IF ch = q THEN scan_line_quoted(Tail(s), d, q, count, ~flag)
            ELSE scan_line_quoted(Tail(s), d, q, count, flag)

\* validate_unquoted, first line (lines 185-189) and later lines (197-205)
RECURSIVE scan_unquoted(_, _, _)
scan_unquoted(s, d, count) ==
    IF s = <<>> THEN count
    ELSE scan_unquoted(Tail(s), d, IF Head(s) = d THEN count + 1 ELSE count)

\* qual_flag = false at lines 140 and 162
flag_kept(flag) == flag
reset_flag(flag) == FALSE

\* delim_count != expected_delims, lines 158 and 206
fewer_only(count, expected) == count < expected
is_mismatch(count, expected) == count # expected

\* i + 1, lines 159 and 207
line_no_zero_based(idx) == idx
line_no(idx) == idx + 1

\* ------------------------------------------------------------ fmt_error
\* Display of a usize: its decimal digits
RECURSIVE to_decimal(_)
to_decimal(n) ==
    IF n < 10 THEN <<48 + n>> ELSE to_decimal(n \div 10) \o <<48 + (n % 10)>>

fmt_error_swapped(n, expected, actual, data) ==
    to_decimal(n) \o <<COMMA>> \o to_decimal(actual) \o <<COMMA>> \o to_decimal(expected)
        \o <<COMMA, DQUOTE>> \o data \o <<DQUOTE>>

\* format!("{},{},{},\"{}\"", line_no, expected, actual, data)
fmt_error(n, expected, actual, data) ==
    to_decimal(n) \o <<COMMA>> \o to_decimal(expected) \o <<COMMA>> \o to_decimal(actual)
        \o <<COMMA, DQUOTE>> \o data \o <<DQUOTE>>

\* ------------------------------------------------------------------ Init
NoRes == [tag |-> "None", errs |-> <<>>]
NoOutFile == [created |-> FALSE, lines |-> <<>>]
NoRet == [tag |-> "None", msg |-> <<>>]

Init ==
    /\ path_kind \in {"file", "dir", "missing"}
    /\ openable \in BOOLEAN
    /\ (path_kind # "file" => openable = FALSE)
    \* the content of a file that is never opened is never observed
    /\ IF openable THEN file \in Files ELSE file = <<>>
    /\ delim \in Alphabet
    /\ qual \in Alphabet \cup {NoQual}
    /\ flag_output \in {"None", "Some"}
    /\ create_ok \in BOOLEAN
    /\ (flag_output = "None" => create_ok = FALSE)
    /\ pc = "validate_file"
    /\ pos = 0
    /\ i = 0
    /\ line = <<>>
    /\ delim_count = 0
    /\ qual_flag = FALSE
    /\ expected_delims = 0
    /\ last_count = 0
    /\ last_flag = FALSE
    /\ errs = <<>>
    /\ res = NoRes
    /\ stdout = <<>>
    /\ out_file = NoOutFile
    /\ ret = NoRet
    /\ panic = ""

is_quoted == qual # NoQual

\* --------------------------------------------------------- validate_file
\* validate_path fails: return Err(vec![e])  (lines 89-93, 107-116)
validate_path_err ==
    /\ pc = "validate_file"
    /\ path_kind # "file"
    /\ res' = [tag |-> "Err", errs |-> <<PATH_NOT_FOUND \o arg_input>>]
    /\ pc' = "returned"
    /\ UNCHANGED <<env, scan, outs, panic>>

\* File::open fails: Err(vec!["Error opening file: ..."])  (lines 95-96)
open_err ==
    /\ pc = "validate_file"
    /\ path_kind = "file"
    /\ ~openable
    /\ res' = [tag |-> "Err", errs |-> <<ERROR_OPENING \o OPEN_ERROR_TEXT>>]
    /\ pc' = "returned"
    /\ UNCHANGED <<env, scan, outs, panic>>

\* the file is open: dispatch on is_quoted  (lines 98-104)
open_ok ==
    /\ pc = "validate_file"
    /\ path_kind = "file"
    /\ openable
    /\ pc' = IF is_quoted THEN "quoted_baseline" ELSE "unquoted_baseline"
    /\ UNCHANGED <<env, scan, outs, res, panic>>

\* ------------------------------------------------------- validate_quoted
\* lines 120-140: read the first line and set expected_delims
quoted_baseline ==
    /\ pc = "quoted_baseline"
    /\ LET raw == read_line(file, pos)
           r == scan_first_quoted(raw, delim, qual, delim_count, qual_flag)
       IN /\ line' = raw
          /\ pos' = pos + Len(raw)
          /\ expected_delims' = r.count
          /\ last_count' = r.count
          /\ last_flag' = r.flag
          /\ delim_count' = 0
          /\ qual_flag' = reset_flag(r.flag)
    /\ pc' = "quoted_loop"
    /\ UNCHANGED <<env, i, errs, res, outs, panic>>

\* lines 142-163: one iteration of the loop over reader.lines()
quoted_line ==
    /\ pc = "quoted_loop"
    /\ pos < Len(file)
    /\ LET raw == read_line(file, pos)
           l == lines_strip(raw)
           r == scan_line_quoted(l, delim, qual, delim_count, qual_flag)
       IN /\ line' = l
          /\ pos' = pos + Len(raw)
          /\ last_count' = r.count
          /\ last_flag' = r.flag
          /\ errs' = IF is_mismatch(r.count, expected_delims)
                     THEN Append(errs, fmt_error(line_no(i), expected_delims, r.count, l))
                     ELSE errs
          /\ delim_count' = 0
          /\ qual_flag' = reset_flag(r.flag)
    /\ i' = i + 1
    /\ UNCHANGED <<env, pc, expected_delims, res, outs, panic>>

\* lines 165-169: the stream is exhausted
quoted_return ==
    /\ pc = "quoted_loop"
    /\ pos >= Len(file)
    /\ res' = IF errs = <<>> THEN [tag |-> "Ok", errs |-> <<>>] ELSE [tag |-> "Err", errs |-> errs]
    /\ pc' = "returned"
    /\ UNCHANGED <<env, scan, outs, panic>>

\* ----------------------------------------------------- validate_unquoted
\* lines 173-192
unquoted_baseline ==
    /\ pc = "unquoted_baseline"
    /\ LET raw == read_line(file, pos)
           c == scan_unquoted(raw, delim, delim_count)
       IN /\ line' = raw
          /\ pos' = pos + Len(raw)
          /\ expected_delims' = c
          /\ last_count' = c
          /\ delim_count' = 0
    /\ pc' = "unquoted_loop"
    /\ UNCHANGED <<env, i, qual_flag, last_flag, errs, res, outs, panic>>

\* lines 194-210
unquoted_line ==
    /\ pc = "unquoted_loop"
    /\ pos < Len(file)
    /\ LET raw == read_line(file, pos)
           l == lines_strip(raw)
           c == scan_unquoted(l, delim, delim_count)
       IN /\ line' = l
          /\ pos' = pos + Len(raw)
          /\ last_count' = c
          /\ errs' = IF is_mismatch(c, expected_delims)
                     THEN Append(errs, fmt_error(line_no(i), expected_delims, c, l))
                     ELSE errs
          /\ delim_count' = 0
    /\ i' = i + 1
    /\ UNCHANGED <<env, pc, qual_flag, last_flag, expected_delims, res, outs, panic>>

\* lines 212-216
unquoted_return ==
    /\ pc = "unquoted_loop"
    /\ pos >= Len(file)
    /\ res' = IF errs = <<>> THEN [tag |-> "Ok", errs |-> <<>>] ELSE [tag |-> "Err", errs |-> errs]
    /\ pc' = "returned"
    /\ UNCHANGED <<env, scan, outs, panic>>

\* ------------------------------------------------------ read failures
\* read_line(...).expect(...) on an Err: the thread panics (lines 127, 180-182)
read_line_panic ==
    /\ pc \in {"quoted_baseline", "unquoted_baseline"}
    /\ panic' = IF pc = "quoted_baseline" THEN "Error reading line"
                ELSE "Error reading line from file"
    /\ pc' = "panicked"
    /\ UNCHANGED <<env, scan, res, outs>>

\* line_result.expect("Error reading line") on an Err (lines 143, 195)
lines_panic ==
    /\ pc \in {"quoted_loop", "unquoted_loop"}
    /\ pos < Len(file)
    /\ panic' = "Error reading line"
    /\ pc' = "panicked"
    /\ UNCHANGED <<env, scan, res, outs>>

\* ------------------------------------------------------------------- run
\* Ok(_): println!("File is valid"); Ok(())  (lines 62-65)
run_ok ==
    /\ pc = "returned"
    /\ res.tag = "Ok"
    /\ stdout' = Append(stdout, FILE_IS_VALID)
    /\ ret' = [tag |-> "Ok", msg |-> <<>>]
    /\ pc' = "done"
    /\ UNCHANGED <<env, scan, res, out_file, panic>>

\* Err(e) without --output: header and every string of e to stdout (lines 74-78)
run_err_stdout ==
    /\ pc = "returned"
    /\ res.tag = "Err"
    /\ flag_output = "None"
    /\ stdout' = stdout \o <<HEADER>> \o res.errs
    /\ ret' = [tag |-> "Err", msg |-> FILE_IS_INVALID]
    /\ pc' = "done"
    /\ UNCHANGED <<env, scan, res, out_file, panic>>

\* Err(e) with --output: let _ = File::create(output).map(...)  (lines 67-73, 78)
\* the Err of a failed create is dropped by `let _ =`
run_err_file ==
    /\ pc = "returned"
    /\ res.tag = "Err"
    /\ flag_output = "Some"
    /\ out_file' = IF create_ok THEN [created |-> TRUE, lines |-> <<HEADER>> \o res.errs]
                   ELSE out_file
    /\ ret' = [tag |-> "Err", msg |-> FILE_IS_INVALID]
    /\ pc' = "done"
    /\ UNCHANGED <<env, scan, res, stdout, panic>>

\* writeln!(f, ...).expect("Error writing to file") on an Err: the file was
\* created and n of the lines were written before the panic (lines 69-72)
write_panic ==
    /\ pc = "returned"
    /\ res.tag = "Err"
    /\ flag_output = "Some"
    /\ create_ok
    /\ \E n \in 0..Len(res.errs) :
          out_file' = [created |-> TRUE, lines |-> SubSeq(<<HEADER>> \o res.errs, 1, n)]
    /\ panic' = "Error writing to file"
    /\ pc' = "panicked"
    /\ UNCHANGED <<env, scan, res, stdout, ret>>

Next ==
    \/ validate_path_err
    \/ open_err
    \/ open_ok
    \/ quoted_baseline
    \/ quoted_line
    \/ quoted_return
    \/ unquoted_baseline
    \/ unquoted_line
    \/ unquoted_return
    \/ read_line_panic
    \/ lines_panic
    \/ run_ok
    \/ run_err_stdout
    \/ run_err_file
    \/ write_panic

Spec == Init /\ [][Next]_vars

\* ======================================================================
\* The vocabulary of the claims, stated on the bytes of the file and
\* independently of the reader and of the scans above.

\* positions of the line feeds of f
LFs(f) == {k \in 1..Len(f) : f[k] = LF}

\* the number of lines of f: one per line feed, and one more for bytes after
\* the last line feed
NumLines(f) ==
    Cardinality(LFs(f)) + (IF Len(f) > 0 /\ f[Len(f)] # LF THEN 1 ELSE 0)

\* the position of the n-th line feed of f
NthLF(f, n) == CHOOSE k \in LFs(f) : Cardinality({j \in LFs(f) : j <= k}) = n

\* the n-th line of f with its line break
RawLine(f, n) ==
    SubSeq(f, IF n = 1 THEN 1 ELSE NthLF(f, n - 1) + 1,
              IF n <= Cardinality(LFs(f)) THEN NthLF(f, n) ELSE Len(f))

\* a line without its line break ("\n" or "\r\n")
Content(raw) ==
    LET n == Len(raw)
    IN IF n > 0 /\ raw[n] = LF
       THEN IF n > 1 /\ raw[n - 1] = CR THEN SubSeq(raw, 1, n - 2) ELSE SubSeq(raw, 1, n - 1)
       ELSE raw

\* the n-th line of f, line break excluded
Line(f, n) == Content(RawLine(f, n))

\* the number of bytes of l equal to d
TotalCount(l, d) == Cardinality({k \in 1..Len(l) : l[k] = d})

\* the number of bytes of l equal to d that an even number of bytes equal to q precede
OutsideCount(l, d, q) ==
    Cardinality({k \in 1..Len(l) :
                    l[k] = d /\ Cardinality({j \in 1..(k - 1) : l[j] = q}) % 2 = 0})

\* the delimiter count of the bytes l under the run's delimiter and quoting option
Count(l) ==
    IF is_quoted /\ delim # qual THEN OutsideCount(l, delim, qual) ELSE TotalCount(l, delim)

\* the file was opened and is being, or has been, scanned
Scanning == pc \in {"quoted_loop", "unquoted_loop"}
Returned == pc \in {"returned", "done"}
Validated == path_kind = "file" /\ openable /\ Returned
AfterBaseline == path_kind = "file" /\ openable /\ (Scanning \/ Returned)

\* the lines after the first whose count differs from the count of the first
\* line as the baseline step read it
Mismatching(f) == {n \in 2..NumLines(f) : Count(Line(f, n)) # Count(RawLine(f, 1))}

\* the j-th smallest element of the set of numbers S
NthOf(S, j) == CHOOSE n \in S : Cardinality({m \in S : m <= n}) = j

\* x is an element of the sequence s
Member(x, s) == \E k \in 1..Len(s) : s[k] = x

\* the decimal digits of n
RECURSIVE Digits(_)
Digits(n) == IF n < 10 THEN <<48 + n>> ELSE Digits(n \div 10) \o <<48 + (n % 10)>>

\* <line_number>,<expected>,<actual>,"<data>" with data verbatim
Rendered(n, e, a, data) ==
    Digits(n) \o <<COMMA>> \o Digits(e) \o <<COMMA>> \o Digits(a) \o <<COMMA, DQUOTE>>
        \o data \o <<DQUOTE>>

\* the line the last scan was given: the first line as read_line returned it,
\* or the (i + 1)-th line of the file
ScannedLine == IF i = 0 THEN RawLine(file, 1) ELSE Line(file, i + 1)

C2_UniformFileIsValid ==
    (Validated /\ delim # qual) =>
        ((\A n \in 1..NumLines(file) : Count(Line(file, n)) = Count(Line(file, 1)))
            => res.tag = "Ok")

\* C3: every scan starts with the flag false and the running count 0, and
\* the count it yields is a function of the scanned line's bytes alone: in
\* quote-aware mode with delimiter # quote, the delimiters that an even number
\* of quotes precede in the line; in non-quoted mode, all its delimiters.
C3_CountIsOfOwnBytes ==
    AfterBaseline =>
        /\ qual_flag = FALSE
        /\ delim_count = 0
        /\ line = ScannedLine
        /\ (is_quoted /\ delim # qual => last_count = OutsideCount(line, delim, qual))
        /\ (~is_quoted => last_count = TotalCount(line, delim))

\* a delimiter counted on a line that follows a line with an unclosed quote
C3_Witness ==
    /\ pc = "quoted_loop"
    /\ delim = COMMA
    /\ qual = DQUOTE
    /\ i >= 1
    /\ last_count >= 1
    /\ TotalCount(IF i = 1 THEN RawLine(file, 1) ELSE Line(file, i), qual) % 2 = 1

C5_SameByteNeverCounted ==
    (AfterBaseline /\ is_quoted /\ delim = qual /\ delim \notin {LF, CR})
        => (last_count = 0 /\ expected_delims = 0)

\* C5 amended: with delimiter = quote in quote-aware mode, every occurrence of
\* the byte is counted as a delimiter and none toggles the flag, on the first
\* line as read and on every later line.
C5_SameByteAlwaysCounted ==
    (AfterBaseline /\ is_quoted /\ delim = qual) =>
        /\ line = ScannedLine
        /\ last_count = TotalCount(line, delim)
        /\ last_flag = FALSE

\* a later line with two occurrences of the byte that is delimiter and quote
C5_Witness ==
    /\ pc = "quoted_loop"
    /\ delim = DQUOTE
    /\ qual = DQUOTE
    /\ i >= 1
    /\ last_count = 2

\* C6: a setup error is reported by run without the header of a validation
\* batch, and nothing is opened or scanned.
C6_SetupErrorNotABatch ==
    (pc = "done" /\ path_kind # "file") =>
        /\ pos = 0
        /\ i = 0
        /\ ~Member(HEADER, stdout)
        /\ ~Member(HEADER, out_file.lines)

\* C7: a read failure ends the operation in a returned error, not in a panic.
C7_ReadFailureIsReturned ==
    ~(pc = "panicked" /\ panic \in {"Error reading line", "Error reading line from file"})

\* C8: when run is done after a validation, Valid gives "File is valid" and
\* Ok, and Invalid gives Err and the header followed by every record in the
\* output file when --output is given, else on stdout.
C8_OutcomeMatchesResult ==
    (pc = "done" /\ path_kind = "file" /\ openable) =>
        /\ (res.tag = "Ok" =>
               stdout = <<FILE_IS_VALID>> /\ ret.tag = "Ok" /\ ~out_file.created)
        /\ (res.tag = "Err" =>
               /\ ret.tag = "Err"
               /\ IF flag_output = "Some"
                  THEN out_file.lines = <<HEADER>> \o errs
                  ELSE stdout = <<HEADER>> \o errs)

C10_BaselineScanIsLineScan ==
    AfterBaseline =>
        expected_delims = (IF is_quoted
                           THEN scan_line_quoted(Line(file, 1), delim, qual, 0, FALSE).count
                           ELSE scan_unquoted(Line(file, 1), delim, 0))

====
